---- MODULE Spec2Model ----
(***************************************************************************)
(* Model of aslam::calibration::IncrementalEstimator.                      *)
(*                                                                         *)
(* The estimator keeps a pool of measurement batches (_problem), the       *)
(* values of the design variables, and the result of the last committed    *)
(* marginalization (_svLogSum, _NS, _CS, _Sigma, _SigmaP, _Omega, _mi).    *)
(* The nonlinear optimizer and the marginalize() routine are external:     *)
(* their results are drawn from small sets.                                *)
(*                                                                         *)
(* Numbers that are doubles in the source are fixed-point integers in      *)
(* units of 0.2; the log-singular-value sums are even, so 0.5 * x is       *)
(* exact.                                                                  *)
(***************************************************************************)
EXTENDS Integers, Sequences, FiniteSets, TLC

(***************************************************************************)
(* Bounds                                                                  *)
(***************************************************************************)
MaxBatches == 2
MaxIterations == 3
MaxCost == 2
MaxRank == 2

BatchIds == 1..MaxBatches
\* one batch more, for the runs that only add batches
OrderBatchIds == 1..(MaxBatches + 1)
GroupIds == 1..(MaxBatches + 2)
MargGroupIds == {1}
Ranks == 0..MaxRank
\* values marginalize() may return for the log-singular-value sum (x 0.2)
SvVals == {-2, 0, 2}

\* Options::infoGainDelta (_options._miTol in the .cpp): 0.2, in units of 0.2
infoGainDelta == 1

VARIABLES
  _margGroupId,     \* group to marginalize
  _options,         \* estimator options
  pool,             \* _problem: the batches, in insertion order
  groupsOrdering,   \* _problem->getGroupsOrdering()
  dv,               \* value of the design variables of each group
  savedDV,          \* backup written by _problem->saveDesignVariables()
  _svLogSum,        \* sum of the log of the singular values
  _mi,              \* mutual information
  _NS, _CS, _Sigma, _SigmaP, _Omega,   \* committed marginalization result
  linearSolver,     \* _optimizer->getSolver<LinearSolver>(), the object
                    \* getRank() and getQRTol() read: has it factored a
                    \* system
  over,             \* observer: the batches _NS, _CS, _Sigma, _SigmaP were
                    \* marginalized over
  last,             \* observer: the last call, its inputs and its outcome
  tr                \* the TryBatchResult held by the caller

vars == <<_margGroupId, _options, pool, groupsOrdering, dv, savedDV,
          _svLogSum, _mi, _NS, _CS, _Sigma, _SigmaP, _Omega, linearSolver,
          over, last, tr>>

estimatorVars == <<_margGroupId, _options, pool, groupsOrdering, dv, savedDV,
                   _svLogSum, _mi, _NS, _CS, _Sigma, _SigmaP, _Omega,
                   linearSolver, over>>

(***************************************************************************)
(* Helpers                                                                 *)
(***************************************************************************)
Range(s) == {s[i] : i \in 1..Len(s)}

RECURSIVE SelectIn(_, _)
SelectIn(s, S) ==
  IF s = <<>> THEN <<>>
  ELSE IF Head(s) \in S THEN <<Head(s)>> \o SelectIn(Tail(s), S)
       ELSE SelectIn(Tail(s), S)

IndexOf(s, x) == CHOOSE i \in 1..Len(s) : s[i] = x /\ \A j \in 1..(i-1) : s[j] # x

RemoveAt(s, i) == SubSeq(s, 1, i - 1) \o SubSeq(s, i + 1, Len(s))

\* 0.5 * x
Half(x) == x \div 2

(***************************************************************************)
(* The batches: the variable groups each one contributes.                  *)
(* Odd batches carry the group 1 and a group of their own, even batches    *)
(* carry only the group of the preceding odd batch.                        *)
(***************************************************************************)
BatchGroups(b) == IF b % 2 = 1 THEN <<1, b + 1>> ELSE <<b>>

GroupsOf(p) == UNION {Range(BatchGroups(p[i])) : i \in 1..Len(p)}

(***************************************************************************)
(* IncrementalOptimizationProblem (the pool)                               *)
(***************************************************************************)
\* _problem->add(batch): the batch is appended, its new groups are appended
\* to the ordering
ProblemAdd(p, ord, b) ==
  [pool |-> Append(p, b),
   ord  |-> ord \o SelectIn(BatchGroups(b), GroupIds \ Range(ord))]

\* _problem->remove(idx): the batch is erased, the groups no batch carries
\* any more leave the ordering
ProblemRemoveAt(p, ord, i) ==
  LET q == RemoveAt(p, i)
  IN  [pool |-> q, ord |-> SelectIn(ord, GroupsOf(q))]

\* _problem->remove(batch)
ProblemRemove(p, ord, b) == ProblemRemoveAt(p, ord, IndexOf(p, b))

\* _problem->saveDesignVariables()
SaveDesignVariables(ord, values) == [g \in Range(ord) |-> values[g]]

\* _problem->restoreDesignVariables(): every saved variable gets its value
\* back
RestoreDesignVariables(values, saved) ==
  [g \in GroupIds |-> IF g \in DOMAIN saved THEN saved[g] ELSE values[g]]

\* the design variables of a group: two each, the second one of an even
\* group is not active (held fixed)
DesignVariablesOf(g) ==
  <<[group |-> g, k |-> 1, active |-> TRUE, minimalDimensions |-> g],
    [group |-> g, k |-> 2, active |-> (g % 2 = 1), minimalDimensions |-> 1]>>

\* _problem->designVariable(0 .. numDesignVariables() - 1): group after group
\* in the ordering of the groups
RECURSIVE DesignVariables(_)
DesignVariables(ord) ==
  IF ord = <<>> THEN <<>>
  ELSE DesignVariablesOf(Head(ord)) \o DesignVariables(Tail(ord))

\* the error terms of a batch: two each
ErrorTermsOf(b) ==
  <<[batch |-> b, k |-> 1, dimension |-> 1],
    [batch |-> b, k |-> 2, dimension |-> b + 1]>>

\* _problem->errorTerm(0 .. numErrorTerms() - 1): batch after batch
RECURSIVE ErrorTerms(_)
ErrorTerms(p) ==
  IF p = <<>> THEN <<>>
  ELSE ErrorTermsOf(Head(p)) \o ErrorTerms(Tail(p))

(***************************************************************************)
(* External collaborators                                                  *)
(***************************************************************************)
\* _optimizer->optimize(): the solver moves every variable of the problem to
\* the minimum of the cost of the batches in the problem; a value is named
\* by the batches it is the minimum for, {} is the initial guess
OptimizedValues(p, ord, values) ==
  [g \in GroupIds |-> IF g \in Range(ord) THEN Range(p) ELSE values[g]]

\* _optimizer->optimize(): what the solver may report

AllSolutionReturnValues ==
  [iterations : 0..MaxIterations, JStart : 0..MaxCost, JFinal : 0..MaxCost]

\* the reports the estimator is driven with: stopped early and decreased the
\* cost, hit the cap, did not decrease the cost
SolutionReturnValues ==
  {[iterations |-> 1, JStart |-> 1, JFinal |-> 0],
   [iterations |-> MaxIterations, JStart |-> 1, JFinal |-> 0],
   [iterations |-> 1, JStart |-> 1, JFinal |-> 1]}

\* marginalize(): the results it may return, each standing for the bases,
\* the covariances and the precision matrix computed together with the sum
\* of the logs. With no observable direction (rank 0) the sum is empty, 0.
Marginalize ==
  {m \in [svLogSum : SvVals, rank : Ranks] :
     (m.rank = 0) = (m.svLogSum = 0) /\ (m.rank = MaxRank => m.svLogSum < 0)}

\* a default-constructed Eigen matrix, the value of the fields before any
\* marginalization
EmptyMatrix == [svLogSum |-> 0, rank |-> 0]

\* Eigen::MatrixXd::cols() of a column-space basis
Cols(cs) == cs.rank

\* the LinearSolver the constructor makes: no matrix structure, nothing
\* factored
NewLinearSolver == [factored |-> FALSE]

(***************************************************************************)
(* IncrementalEstimator: restoreLinearSolver                               *)
(***************************************************************************)
\* the loop over the design variables: all is what is left of
\* designVariable(i), dvs the vector built so far
RECURSIVE IndexDesignVariables(_, _, _)
IndexDesignVariables(all, dvs, columnBase) ==
  IF all = <<>> THEN dvs
  ELSE LET d == Head(all)
       IN  IF d.active
           THEN IndexDesignVariables(Tail(all),
                  Append(dvs, [group |-> d.group, k |-> d.k,
                               blockIndex |-> (Len(dvs) + 1) - 1,
                               columnBase |-> columnBase]),
                  columnBase + d.minimalDimensions)
           ELSE IndexDesignVariables(Tail(all), dvs, columnBase)

\* the loop over the error terms
RECURSIVE IndexErrorTerms(_, _, _)
IndexErrorTerms(all, ets, dim) ==
  IF all = <<>> THEN ets
  ELSE LET et == Head(all)
       IN  IndexErrorTerms(Tail(all),
             Append(ets, [batch |-> et.batch, k |-> et.k, rowBase |-> dim]),
             dim + et.dimension)

\* MatrixStructure with the inactive design variables indexed as well
MatrixStructure_AllVariables(p, ord) ==
  [dvs |-> IndexDesignVariables(
             [i \in 1..Len(DesignVariables(ord)) |->
                [DesignVariables(ord)[i] EXCEPT !.active = TRUE]], <<>>, 0),
   ets |-> IndexErrorTerms(ErrorTerms(p), <<>>, 0)]

\* the dvs and ets handed to initMatrixStructure for the problem p, ord
MatrixStructure(p, ord) ==
  [dvs |-> IndexDesignVariables(DesignVariables(ord), <<>>, 0),
   ets |-> IndexErrorTerms(ErrorTerms(p), <<>>, 0)]

\* restoreLinearSolver(): a new solver, given the structure of the problem,
\* its system built and analysed, nothing factored
restoreLinearSolver == NewLinearSolver

\* optimize(): a new solver, set up and factored by the optimizer; its rank
\* and tolerance are those of the last iteration of the solve
optimizedLinearSolver == [factored |-> TRUE]

(***************************************************************************)
(* IncrementalEstimator: pieces of addBatch                                *)
(***************************************************************************)
\* orderMarginalizedDesignVariables(): is the marginalized group in the
\* ordering (otherwise InvalidOperationException)
MargGroupInProblem(ord, margGroupId) == margGroupId \in Range(ord)

\* orderMarginalizedDesignVariables without the swap
orderMarginalizedDesignVariables_NoSwap(ord, margGroupId) == ord

\* orderMarginalizedDesignVariables(): the ordering it leaves
orderMarginalizedDesignVariables(ord, margGroupId) ==
  LET i == IndexOf(ord, margGroupId)
  IN  IF ord[i] # ord[Len(ord)]
      THEN [ord EXCEPT ![i] = ord[Len(ord)], ![Len(ord)] = ord[i]]
      ELSE ord

\* SolutionValid with the two tests joined by "and"
SolutionValid_BothTests(srv, options) ==
  ~(srv.iterations = options.maxIterations /\ srv.JFinal >= srv.JStart)

\* SolutionValid with an unchanged cost accepted
SolutionValid_NonStrict(srv, options) ==
  ~(srv.iterations = options.maxIterations \/ srv.JFinal > srv.JStart)

\* check if the solution is valid
SolutionValid(srv, options) ==
  ~(srv.iterations = options.maxIterations \/ srv.JFinal >= srv.JStart)

\* first round of estimation?
FirstRound(svLogSumCur, solutionValid) == svLogSumCur = 0 /\ solutionValid

\* compute MI
ComputeMI(svLogSum, svLogSumCur) == Half(svLogSum - svLogSumCur)

\* MI improvement or rank goes up
MIImprovementOrRankUp(mi, cs, csCur, solutionValid, options) ==
  (mi > options.miTol \/ Cols(cs) > Cols(csCur)) /\ solutionValid

\* keepBatch at the end of the decision
KeepBatch(m, svLogSumCur, csCur, solutionValid, options) ==
  IF FirstRound(svLogSumCur, solutionValid) THEN TRUE
  ELSE MIImprovementOrRankUp(ComputeMI(m.svLogSum, svLogSumCur), m, csCur,
                             solutionValid, options)

\* ret._mi
RetMI(m, svLogSumCur, solutionValid) ==
  IF FirstRound(svLogSumCur, solutionValid) THEN 0
  ELSE ComputeMI(m.svLogSum, svLogSumCur)

\* _mi after the decision: the first round leaves it alone
NextMI(m, miCur, svLogSumCur, keepBatch, solutionValid) ==
  IF ~FirstRound(svLogSumCur, solutionValid) /\ keepBatch
  THEN ComputeMI(m.svLogSum, svLogSumCur)
  ELSE miCur

\* SaveForRollback with the backup written only on the forced path; without
\* force the backup of an earlier call stays
SaveForRollback_OnlyWhenForced(force, ord, values, savedPrev) ==
  IF force THEN SaveDesignVariables(ord, values) ELSE savedPrev

\* save design variables in case the batch is rejected: whatever force is,
\* after the insertion and the ordering, before the solve
SaveForRollback(force, ord, values, savedPrev) ==
  SaveDesignVariables(ord, values)

\* BatchAccepted without the force flag
BatchAccepted_IgnoresForce(keepBatch, force) == keepBatch

\* ret._batchAccepted
BatchAccepted(keepBatch, force) == keepBatch \/ force

\* RemoveIfNecessary with the ordering of the trial left in place
RemoveIfNecessary_KeepsOrdering(keepBatch, force, b, p, ord, values, saved) ==
  IF ~keepBatch /\ ~force
  THEN LET r == ProblemRemove(p, ord, b)
       IN  [pool |-> r.pool, ord |-> ord,
            dv |-> RestoreDesignVariables(values, saved)]
  ELSE [pool |-> p, ord |-> ord, dv |-> values]

\* RemoveIfNecessary without the restore of the variables
RemoveIfNecessary_NoRestore(keepBatch, force, b, p, ord, values, saved) ==
  IF ~keepBatch /\ ~force
  THEN LET r == ProblemRemove(p, ord, b)
       IN  [pool |-> r.pool, ord |-> r.ord, dv |-> values]
  ELSE [pool |-> p, ord |-> ord, dv |-> values]

\* remove batch if necessary: the problem and the values addBatch leaves
RemoveIfNecessary(keepBatch, force, b, p, ord, values, saved) ==
  IF ~keepBatch /\ ~force
  THEN LET r == ProblemRemove(p, ord, b)
       IN  [pool |-> r.pool, ord |-> r.ord,
            dv |-> RestoreDesignVariables(values, saved)]
  ELSE [pool |-> p, ord |-> ord, dv |-> values]

(***************************************************************************)
(* The observer                                                            *)
(***************************************************************************)
\* op: the call; error: the exception it raised; found: removeBatch met its
\* batch in the problem; force, keepBatch, batchAccepted: addBatch's argument,
\* its decision and ret._batchAccepted; srv, solutionValid: the solver report
\* a validity check was given and its verdict (for addBatch: solutionValid);
\* undo: removeBatch was given the batch that the
\* call before it, an accepted addBatch, had added; structure: what
\* restoreLinearSolver handed to initMatrixStructure during the call
NoSrv == [iterations |-> 0, JStart |-> 0, JFinal |-> 0]
NoStructure == [dvs |-> <<>>, ets |-> <<>>]
NoRet == [solutionValid |-> FALSE, isInformativeBatch |-> FALSE,
          informationGain |-> 0, m |-> EmptyMatrix]
NoCall == [op |-> "none", error |-> "none", found |-> FALSE,
           force |-> FALSE, keepBatch |-> FALSE, batchAccepted |-> FALSE,
           srv |-> NoSrv, solutionValid |-> FALSE, undo |-> FALSE,
           structure |-> NoStructure]

\* a default-constructed TryBatchResult
NoDecision == [_estimator |-> "nullptr", _batch |-> 0, _ret |-> NoRet]

(***************************************************************************)
(* Initial state: the constructor                                          *)
(***************************************************************************)
Init ==
  /\ _margGroupId \in MargGroupIds
  /\ _options \in [miTol : {infoGainDelta}, maxIterations : {MaxIterations},
                   maxIterationHitIsStillValid : {FALSE}]
  /\ pool = <<>>
  /\ groupsOrdering = <<>>
  /\ dv = [g \in GroupIds |-> {}]
  /\ savedDV = <<>>
  /\ _svLogSum = 0
  /\ _mi = 0
  /\ _NS = EmptyMatrix
  /\ _CS = EmptyMatrix
  /\ _Sigma = EmptyMatrix
  /\ _SigmaP = EmptyMatrix
  /\ _Omega = EmptyMatrix
  /\ linearSolver = NewLinearSolver
  /\ over = {}
  /\ last = NoCall
  /\ tr = NoDecision

(***************************************************************************)
(* IncrementalEstimator::addBatch(problem, force)                          *)
(***************************************************************************)
addBatch(b, force) ==
  /\ b \notin Range(pool)
  /\ LET a == ProblemAdd(pool, groupsOrdering, b)
     IN  IF ~MargGroupInProblem(a.ord, _margGroupId)
         THEN /\ pool' = a.pool
              /\ groupsOrdering' = a.ord
              /\ last' = [NoCall EXCEPT !.op = "addBatch",
                            !.error = "InvalidOperationException",
                            !.force = force]
              /\ UNCHANGED <<dv, savedDV, _svLogSum, _mi, _NS, _CS, _Sigma,
                             _SigmaP, _Omega, linearSolver, over>>
         ELSE LET ord == orderMarginalizedDesignVariables(a.ord, _margGroupId)
                  saved == SaveForRollback(force, ord, dv, savedDV)
              IN  \E srv \in SolutionReturnValues,
                     m \in Marginalize :
                    LET w == OptimizedValues(a.pool, ord, dv)
                        solutionValid == SolutionValid(srv, _options)
                        keepBatch == KeepBatch(m, _svLogSum, _CS,
                                               solutionValid, _options)
                        r == RemoveIfNecessary(keepBatch, force, b, a.pool,
                                               ord, w, saved)
                    IN  /\ savedDV' = saved
                        /\ _svLogSum' = IF keepBatch THEN m.svLogSum
                                        ELSE _svLogSum
                        /\ _mi' = NextMI(m, _mi, _svLogSum, keepBatch,
                                         solutionValid)
                        /\ _NS' = IF keepBatch THEN m ELSE _NS
                        /\ _CS' = IF keepBatch THEN m ELSE _CS
                        /\ _Sigma' = IF keepBatch THEN m ELSE _Sigma
                        /\ _SigmaP' = IF keepBatch THEN m ELSE _SigmaP
                        /\ _Omega' = IF keepBatch THEN m ELSE _Omega
                        /\ over' = IF keepBatch THEN Range(a.pool) ELSE over
                        /\ pool' = r.pool
                        /\ groupsOrdering' = r.ord
                        /\ dv' = r.dv
                        /\ linearSolver' =
                             IF ~keepBatch /\ ~force
                             THEN restoreLinearSolver
                             ELSE optimizedLinearSolver
                        /\ last' = [NoCall EXCEPT !.op = "addBatch",
                              !.force = force,
                              !.keepBatch = keepBatch,
                              !.batchAccepted =
                                 BatchAccepted(keepBatch, force),
                              !.solutionValid = solutionValid,
                              !.structure =
                                 IF ~keepBatch /\ ~force
                                 THEN MatrixStructure(r.pool, r.ord)
                                 ELSE NoStructure]
  /\ UNCHANGED <<_margGroupId, _options, tr>>

(***************************************************************************)
(* IncrementalEstimator::removeBatch(idx); idx counts from 1 here          *)
(***************************************************************************)
\* the last call was an addBatch that returned with its batch accepted
LastCallAccepted ==
  last.op = "addBatch" /\ last.error = "none" /\ last.batchAccepted

\* update mutual information, halved as addBatch does
RemovalMI_Halved(svLogSum, svLogSumCur) == Half(svLogSum - svLogSumCur)

\* update mutual information
RemovalMI(svLogSum, svLogSumCur) == svLogSum - svLogSumCur

\* the body of removeBatch(idx); undo is recorded by the observer
RemoveBatchAt(idx, undo) ==
  /\ IF idx \notin 1..Len(pool)
     THEN \* _problem->remove(idx) fails
          /\ last' = [NoCall EXCEPT !.op = "removeBatch",
                        !.error = "NotFound"]
          /\ UNCHANGED <<pool, groupsOrdering, dv, savedDV, _svLogSum, _mi,
                         _NS, _CS, _Sigma, _SigmaP, _Omega, linearSolver,
                         over>>
     ELSE LET r == ProblemRemoveAt(pool, groupsOrdering, idx)
          IN  IF ~MargGroupInProblem(r.ord, _margGroupId)
              THEN /\ pool' = r.pool
                   /\ groupsOrdering' = r.ord
                   /\ last' = [NoCall EXCEPT !.op = "removeBatch",
                                 !.error = "InvalidOperationException",
                                 !.found = TRUE, !.undo = undo]
                   /\ UNCHANGED <<dv, savedDV, _svLogSum, _mi, _NS, _CS,
                                  _Sigma, _SigmaP, _Omega, linearSolver,
                                  over>>
              ELSE LET ord == orderMarginalizedDesignVariables(r.ord,
                                                               _margGroupId)
                   IN  \E m \in Marginalize :
                         /\ pool' = r.pool
                         /\ groupsOrdering' = ord
                         /\ dv' = OptimizedValues(r.pool, ord, dv)
                         /\ linearSolver' = optimizedLinearSolver
                         /\ _NS' = m
                         /\ _CS' = m
                         /\ _Sigma' = m
                         /\ _SigmaP' = m
                         /\ _Omega' = m
                         /\ over' = Range(r.pool)
                         /\ _mi' = RemovalMI(m.svLogSum, _svLogSum)
                         /\ _svLogSum' = m.svLogSum
                         /\ last' = [NoCall EXCEPT !.op = "removeBatch",
                                       !.found = TRUE, !.undo = undo]
                         /\ UNCHANGED savedDV
  /\ UNCHANGED <<_margGroupId, _options, tr>>

removeBatchIdx(idx) == RemoveBatchAt(idx, LastCallAccepted /\ idx = Len(pool))

(***************************************************************************)
(* IncrementalEstimator::removeBatch(batch)                                *)
(***************************************************************************)
\* the first batch, whatever the handle
BatchIndex_First(p, b) == 1

\* std::distance(getOptimizationProblemBegin(), getOptimizationProblem(batch))
BatchIndex(p, b) == IndexOf(p, b)

removeBatch(b) ==
  IF b \in Range(pool)
  THEN RemoveBatchAt(BatchIndex(pool, b),
                     LastCallAccepted /\ b = pool[Len(pool)])
  ELSE /\ last' = [NoCall EXCEPT !.op = "removeBatch"]
       /\ UNCHANGED <<estimatorVars, tr>>

(***************************************************************************)
(* IncrementalEstimator::reoptimize()                                      *)
(***************************************************************************)
reoptimize ==
  /\ IF ~MargGroupInProblem(groupsOrdering, _margGroupId)
     THEN /\ last' = [NoCall EXCEPT !.op = "reoptimize",
                        !.error = "InvalidOperationException"]
          /\ UNCHANGED <<pool, groupsOrdering, dv, savedDV, _svLogSum, _mi,
                         _NS, _CS, _Sigma, _SigmaP, _Omega, linearSolver,
                         over>>
     ELSE LET ord == orderMarginalizedDesignVariables(groupsOrdering,
                                                      _margGroupId)
          IN  \E m \in Marginalize :
                /\ groupsOrdering' = ord
                /\ dv' = OptimizedValues(pool, ord, dv)
                /\ linearSolver' = optimizedLinearSolver
                /\ _svLogSum' = m.svLogSum
                /\ _NS' = m
                /\ _CS' = m
                /\ _Sigma' = m
                /\ _SigmaP' = m
                /\ over' = Range(pool)
                /\ last' = [NoCall EXCEPT !.op = "reoptimize"]
                /\ UNCHANGED <<pool, savedDV, _mi, _Omega>>
  /\ UNCHANGED <<_margGroupId, _options, tr>>

(***************************************************************************)
(* The estimator driven through addBatch, removeBatch and reoptimize       *)
(***************************************************************************)
Next ==
  \/ \E b \in BatchIds, force \in BOOLEAN : addBatch(b, force)
  \/ \E idx \in 1..(MaxBatches + 1) : removeBatchIdx(idx)
  \/ \E b \in BatchIds : removeBatch(b)
  \/ reoptimize

Spec == Init /\ [][Next]_vars

(***************************************************************************)
(* The validity check of addBatch on its own: every solver report under    *)
(* every setting of the options                                            *)
(***************************************************************************)
SolveInit ==
  /\ _margGroupId \in MargGroupIds
  /\ _options \in [miTol : {infoGainDelta}, maxIterations : 1..MaxIterations,
                   maxIterationHitIsStillValid : BOOLEAN]
  /\ pool = <<>>
  /\ groupsOrdering = <<>>
  /\ dv = [g \in GroupIds |-> {}]
  /\ savedDV = <<>>
  /\ _svLogSum = 0
  /\ _mi = 0
  /\ _NS = EmptyMatrix
  /\ _CS = EmptyMatrix
  /\ _Sigma = EmptyMatrix
  /\ _SigmaP = EmptyMatrix
  /\ _Omega = EmptyMatrix
  /\ linearSolver = NewLinearSolver
  /\ over = {}
  /\ last = NoCall
  /\ tr = NoDecision

checkSolutionValid(srv) ==
  /\ srv.iterations <= _options.maxIterations
  /\ last' = [NoCall EXCEPT !.op = "checkSolutionValid", !.srv = srv,
                !.solutionValid = SolutionValid(srv, _options)]
  /\ UNCHANGED <<estimatorVars, tr>>

SolveNext == \E srv \in AllSolutionReturnValues : checkSolutionValid(srv)

SpecSolve == SolveInit /\ [][SolveNext]_vars

(***************************************************************************)
(* The try/accept/reject interface of the header.  tryBatch, acceptBatch   *)
(* and rejectBatch follow the design document; TryBatchResult::accept and  *)
(* TryBatchResult::reject are the inline functions of the header.          *)
(***************************************************************************)
\* TryBatchResult::isSet()
isSet(t) == t._batch # 0

\* TryBatchResult::unset()
unset(t) == [t EXCEPT !._batch = 0]

\* the process is still running
Running == last.error # "crash"

\* tryBatch(batch, firstStoreDesignVariables)
tryBatch(b, firstStoreDesignVariables) ==
  /\ Running
  /\ b \notin Range(pool)
  /\ LET a == ProblemAdd(pool, groupsOrdering, b)
     IN  IF ~MargGroupInProblem(a.ord, _margGroupId)
         THEN /\ last' = [NoCall EXCEPT !.op = "tryBatch",
                            !.error = "InvalidOperationException"]
              /\ UNCHANGED <<pool, groupsOrdering, dv, savedDV,
                             linearSolver, tr>>
         ELSE LET ord == orderMarginalizedDesignVariables(a.ord, _margGroupId)
              IN  \E srv \in SolutionReturnValues, m \in Marginalize :
                    LET solutionValid == SolutionValid(srv, _options)
                        gain == IF over = {} THEN 0
                                ELSE ComputeMI(m.svLogSum, _svLogSum)
                        informative ==
                          IF over = {} THEN solutionValid
                          ELSE MIImprovementOrRankUp(gain, m, _CS,
                                                     solutionValid, _options)
                    IN  /\ pool' = a.pool
                        /\ groupsOrdering' = ord
                        /\ savedDV' = IF firstStoreDesignVariables
                                      THEN SaveDesignVariables(ord, dv)
                                      ELSE savedDV
                        /\ dv' = OptimizedValues(a.pool, ord, dv)
                        /\ linearSolver' = optimizedLinearSolver
                        /\ tr' = [_estimator |-> "this", _batch |-> b,
                                  _ret |-> [solutionValid |-> solutionValid,
                                            isInformativeBatch |-> informative,
                                            informationGain |-> gain,
                                            m |-> m]]
                        /\ last' = [NoCall EXCEPT !.op = "tryBatch"]
  /\ UNCHANGED <<_margGroupId, _options, _svLogSum, _mi, _NS, _CS, _Sigma,
                 _SigmaP, _Omega, over>>

\* acceptBatch(tryBatchResult): the trial's snapshot becomes the estimator's;
\* a decision that is not set is refused
acceptBatch(t) ==
  IF ~isSet(t)
  THEN /\ last' = [NoCall EXCEPT !.op = "accept",
                     !.error = "DoubleConsumption"]
       /\ UNCHANGED <<estimatorVars, tr>>
  ELSE /\ _svLogSum' = t._ret.m.svLogSum
       /\ _mi' = t._ret.informationGain
       /\ _NS' = t._ret.m
       /\ _CS' = t._ret.m
       /\ _Sigma' = t._ret.m
       /\ _SigmaP' = t._ret.m
       /\ _Omega' = t._ret.m
       /\ over' = Range(pool)
       /\ tr' = unset(t)
       /\ last' = [NoCall EXCEPT !.op = "accept"]
       /\ UNCHANGED <<_margGroupId, _options, pool, groupsOrdering, dv,
                      savedDV, linearSolver>>

\* rejectBatch(tryBatchResult, restoreDesignVariables): the batch leaves the
\* pool, the values are restored on request; a decision that is not set is
\* refused
rejectBatch(t, restoreDesignVariables) ==
  IF ~isSet(t)
  THEN /\ last' = [NoCall EXCEPT !.op = "reject",
                     !.error = "DoubleConsumption"]
       /\ UNCHANGED <<estimatorVars, tr>>
  ELSE LET r == ProblemRemove(pool, groupsOrdering, t._batch)
       IN  /\ pool' = r.pool
           /\ groupsOrdering' = r.ord
           /\ dv' = IF restoreDesignVariables
                    THEN RestoreDesignVariables(dv, savedDV)
                    ELSE dv
           /\ linearSolver' = restoreLinearSolver
           /\ tr' = unset(t)
           /\ last' = [NoCall EXCEPT !.op = "reject",
                         !.structure = MatrixStructure(r.pool, r.ord)]
           /\ UNCHANGED <<_margGroupId, _options, savedDV, _svLogSum, _mi,
                          _NS, _CS, _Sigma, _SigmaP, _Omega, over>>

\* a member function called through the null _estimator of a
\* default-constructed TryBatchResult: undefined behaviour. The call either
\* gets as far as the refusal of the unset decision or the process dies.
NullEstimatorCall(op) ==
  /\ \E outcome \in {"DoubleConsumption", "crash"} :
       last' = [NoCall EXCEPT !.op = op, !.error = outcome]
  /\ UNCHANGED <<estimatorVars, tr>>

\* TryBatchResult::accept()
accept ==
  /\ Running
  /\ IF tr._estimator = "nullptr"
     THEN NullEstimatorCall("accept")
     ELSE acceptBatch(tr)

\* TryBatchResult::reject(restoreDesignVariables)
reject(restoreDesignVariables) ==
  /\ Running
  /\ IF tr._estimator = "nullptr"
     THEN NullEstimatorCall("reject")
     ELSE rejectBatch(tr, restoreDesignVariables)

TryNext ==
  \/ \E b \in BatchIds, firstStore \in BOOLEAN : tryBatch(b, firstStore)
  \/ accept
  \/ \E restore \in BOOLEAN : reject(restore)

SpecTry == Init /\ [][TryNext]_vars

(***************************************************************************)
(* The estimator driven through addBatch alone, with one batch more: a     *)
(* batch that brings a new group can be tried on a pool that holds the     *)
(* marginalized group                                                      *)
(***************************************************************************)
OrderNext == \E b \in OrderBatchIds, force \in BOOLEAN : addBatch(b, force)

SpecOrder == Init /\ [][OrderNext]_vars

(***************************************************************************)
(* Properties                                                              *)
(***************************************************************************)
\* the Spectral Snapshot the estimator holds
Snapshot == <<_svLogSum, _NS, _CS, _Sigma, _SigmaP, _Omega>>

\* the Spectral Snapshot a marginalization result m makes
SnapshotOf(m) == <<m.svLogSum, m, m, m, m, m>>

\* an addBatch that returned, and how
AddBatchReturned == last.op = "addBatch" /\ last.error = "none"
AddBatchRejected == AddBatchReturned /\ ~last.batchAccepted
AddBatchAccepted == AddBatchReturned /\ last.batchAccepted

\* C1. Rollback purity: an addBatch that ends in the rejection of its batch
\* leaves the batches of the pool, the value of every design variable of the
\* pool and the Spectral Snapshot as they were before the call.
C1_RollbackPurity ==
  [][AddBatchRejected' =>
       /\ pool' = pool
       /\ \A g \in Range(groupsOrdering) : dv'[g] = dv[g]
       /\ Snapshot' = Snapshot]_vars

\* a rejected trial on a pool that holds a batch: the solver had moved the
\* variables to the minimum of the larger problem, they are back at the saved
\* values
C1_Witness ==
  /\ AddBatchRejected
  /\ pool # <<>>
  /\ \A g \in Range(groupsOrdering) :
       g \in DOMAIN savedDV /\ dv[g] = savedDV[g] /\ dv[g] = Range(pool)

\* C2. Snapshot/pool consistency: after a completed addBatch, removeBatch or
\* reoptimize the Spectral Snapshot is the one marginalized over exactly the
\* batches the pool holds.
C2_SnapshotMatchesPool == last.error = "none" => over = Range(pool)

\* C3. Commit monotonicity: an accepted addBatch leaves one batch more in the
\* pool and the Spectral Snapshot is the one the trial computed, over the
\* pool with the new batch.
C3_CommitMonotonicity ==
  [][AddBatchAccepted' =>
       /\ Len(pool') = Len(pool) + 1
       /\ over' = Range(pool')
       /\ \E m \in Marginalize : Snapshot' = SnapshotOf(m)]_vars

\* C4. addBatch is tryBatch followed by accept when force or informative and
\* by reject(true) otherwise: batchAccepted is (force or informative), and
\* the batch is in the pool afterwards exactly when batchAccepted.
C4_AddBatchComposition ==
  [][AddBatchReturned' =>
       /\ last'.batchAccepted = (last'.force \/ last'.keepBatch)
       /\ IF last'.batchAccepted
          THEN \E b \in BatchIds \ Range(pool) : pool' = Append(pool, b)
          ELSE pool' = pool]_vars

\* a forced add of a batch that was not informative: it is accepted and kept
C4_Witness ==
  /\ AddBatchReturned
  /\ last.force /\ ~last.keepBatch /\ last.batchAccepted
  /\ pool # <<>>

\* C5. Informativeness against a committed snapshot: whatever the solver and
\* the marginalization return, the gain reported is half the difference of
\* the sums and the batch is informative exactly when the solution is valid
\* and the gain exceeds infoGainDelta or the column-space rank goes up.
C5_InformativenessRule ==
  over # {} =>
    \A srv \in SolutionReturnValues, m \in Marginalize :
      LET solutionValid == SolutionValid(srv, _options)
          gain == Half(m.svLogSum - _svLogSum)
      IN  /\ RetMI(m, _svLogSum, solutionValid) = gain
          /\ KeepBatch(m, _svLogSum, _CS, solutionValid, _options)
               = (solutionValid /\ (gain > infoGainDelta
                                    \/ Cols(m) > Cols(_CS)))

\* C6. Bootstrap gain: while no snapshot has been committed, whatever the
\* solver and the marginalization return, the gain reported is 0 and the
\* batch is informative exactly when the solution is valid.
C6_BootstrapGain ==
  over = {} =>
    \A srv \in SolutionReturnValues, m \in Marginalize :
      LET solutionValid == SolutionValid(srv, _options)
      IN  /\ RetMI(m, _svLogSum, solutionValid) = 0
          /\ KeepBatch(m, _svLogSum, _CS, solutionValid, _options)
               = solutionValid

C8_InvalidConfigurationKeepsState ==
  [][(last'.error = "InvalidOperationException") =>
       /\ pool' = pool
       /\ groupsOrdering' = groupsOrdering
       /\ dv' = dv
       /\ Snapshot' = Snapshot]_vars

\* C9. removeBatch of a batch that is not in the pool raises NotFound and
\* changes nothing.
C9_RemoveAbsentRaisesNotFound ==
  [][(last'.op = "removeBatch" /\ ~last'.found) =>
       /\ last'.error = "NotFound"
       /\ UNCHANGED estimatorVars]_vars

\* C10. A decision is used once: accept() or reject() on a decision that was
\* already accepted or rejected, or that was default-constructed, raises the
\* double-consumption error and changes neither the pool, the values nor the
\* Spectral Snapshot.
C10_SingleUseDecision ==
  [][(last'.op \in {"accept", "reject"} /\ ~isSet(tr)) =>
       /\ last'.error = "DoubleConsumption"
       /\ UNCHANGED estimatorVars]_vars

\* C11. One trial in flight: while the decision tryBatch returned is neither
\* accepted nor rejected, nothing but its accept() or reject() changes the
\* estimator or returns another decision; no other batch is trialed
\* meanwhile.
C11_OneTrialInFlight ==
  [][(isSet(tr) /\ (estimatorVars' # estimatorVars \/ tr' # tr)) =>
       last'.op \in {"accept", "reject"}]_vars

\* a removeBatch that met its batch and returned
RemoveBatchReturned ==
  last.op = "removeBatch" /\ last.found /\ last.error = "none"

\* C12. removeBatch of a batch of the pool is always committed: one batch
\* less, the Spectral Snapshot is the one marginalized over the reduced pool,
\* whatever the gain and the rank, and the stored gain is the new sum minus
\* the previous one.
C12_RemovalAlwaysCommitted ==
  [][RemoveBatchReturned' =>
       /\ Len(pool') = Len(pool) - 1
       /\ over' = Range(pool')
       /\ \E m \in Marginalize : Snapshot' = SnapshotOf(m)
       /\ _mi' = _svLogSum' - _svLogSum]_vars

\* a removal that lost information and rank is committed all the same
C12_Witness ==
  /\ RemoveBatchReturned
  /\ _mi = -4
  /\ Cols(_CS) < MaxRank
  /\ Snapshot = SnapshotOf(_NS)
  /\ over = Range(pool)

\* a reoptimize that returned
ReoptimizeReturned == last.op = "reoptimize" /\ last.error = "none"

\* C13. reoptimize keeps the number of batches, replaces every field of the
\* Spectral Snapshot, the precision matrix included, by the fresh
\* marginalization, and reports batchAccepted false.
C13_ReoptimizeReplacesSnapshot ==
  [][ReoptimizeReturned' =>
       /\ Len(pool') = Len(pool)
       /\ \E m \in Marginalize : Snapshot' = SnapshotOf(m)
       /\ ~last'.batchAccepted]_vars

\* C14. Non-convergence is data: an addBatch whose solve is not valid returns
\* normally, its batch is never informative, it is accepted only by force,
\* and without force the pool, the values and the Spectral Snapshot are as
\* before; whatever the calls, a batch enters the pool only through an
\* addBatch that returned with a valid solution or was forced.
C14_NonConvergenceIsData ==
  [][/\ (AddBatchReturned' /\ ~last'.solutionValid) =>
          /\ ~last'.keepBatch
          /\ last'.batchAccepted = last'.force
          /\ ~last'.force =>
                /\ pool' = pool
                /\ \A g \in Range(groupsOrdering) : dv'[g] = dv[g]
                /\ Snapshot' = Snapshot
     /\ (last'.op = "addBatch" /\ Range(pool') # Range(pool)) =>
          /\ last'.error = "none"
          /\ last'.solutionValid \/ last'.force]_vars

\* C15. A rejected trial does not disturb the derived scalars: when the
\* solver getRank() and getQRTol() read held the factorization of the last
\* solve before an addBatch that rejected its batch, it still holds a
\* factorization after the call, not the state of a solver that was
\* re-initialized and factored nothing.
C15_RejectedTrialKeepsDerivedScalars ==
  [][(AddBatchRejected' /\ linearSolver.factored) =>
       linearSolver'.factored]_vars

\* C16. Removal symmetry: an accepted addBatch appends its batch to the pool,
\* and a removeBatch of that batch right after it leaves the pool as it was
\* before the addBatch, so getNumBatches() is back at its value.
C16_RemovalSymmetry ==
  [][/\ AddBatchAccepted' =>
          \E b \in BatchIds \ Range(pool) : pool' = Append(pool, b)
     /\ last'.undo => pool' = SubSeq(pool, 1, Len(pool) - 1)]_vars

\* the batch just accepted was removed from a pool that held another one
C16_Witness ==
  /\ last.op = "removeBatch"
  /\ last.undo
  /\ last.error = "none"
  /\ pool # <<>>

\* C17. Solution validity as the header documents it: with
\* maxIterationHitIsStillValid false, solutionValid is true exactly when the
\* solver stopped before the maximum number of iterations and the final cost
\* is strictly lower than the start cost.
C17_SolutionValidAsDocumented ==
  (last.op = "checkSolutionValid" /\ ~_options.maxIterationHitIsStillValid) =>
    (last.solutionValid <=>
       (last.srv.iterations < _options.maxIterations
        /\ last.srv.JFinal < last.srv.JStart))

\* stopped before the cap with the cost unchanged: not valid
C17_Witness ==
  /\ last.op = "checkSolutionValid"
  /\ ~_options.maxIterationHitIsStillValid
  /\ last.srv.iterations < _options.maxIterations
  /\ last.srv.JFinal = last.srv.JStart
  /\ ~last.solutionValid

\* the orderings orderMarginalizedDesignVariables may be called on in this
\* state: by reoptimize, by addBatch after the insertion of a batch, by
\* removeBatch after the removal of one
OrderingsBeforeSolve ==
  {groupsOrdering}
    \cup {ProblemAdd(pool, groupsOrdering, b).ord : b \in BatchIds \ Range(pool)}
    \cup {ProblemRemoveAt(pool, groupsOrdering, i).ord : i \in 1..Len(pool)}

\* C18. The marginalized group is last before every solve: whenever
\* orderMarginalizedDesignVariables returns normally the marginalized group
\* is the last of the ordering, and the ordering is the previous one with
\* the entry of the marginalized group and the last entry swapped; it is the
\* ordering of the pool after a reoptimize, a removeBatch and an accepted
\* addBatch.
C18_MarginalizedGroupLast ==
  /\ \A ord \in OrderingsBeforeSolve :
       MargGroupInProblem(ord, _margGroupId) =>
         LET o == orderMarginalizedDesignVariables(ord, _margGroupId)
             i == IndexOf(ord, _margGroupId)
         IN  /\ o[Len(o)] = _margGroupId
             /\ o = [ord EXCEPT ![i] = ord[Len(ord)], ![Len(ord)] = ord[i]]
  /\ (ReoptimizeReturned \/ RemoveBatchReturned \/ AddBatchAccepted) =>
       /\ groupsOrdering # <<>>
       /\ groupsOrdering[Len(groupsOrdering)] = _margGroupId

\* the marginalized group came first with the batch and was moved last
C18_Witness ==
  /\ AddBatchAccepted
  /\ ProblemAdd(<<>>, <<>>, pool[1]).ord[1] = _margGroupId
  /\ Len(groupsOrdering) > 1
  /\ groupsOrdering[Len(groupsOrdering)] = _margGroupId

\* C19. getMutualInformation() is the last information gain: after an
\* accepted addBatch it is the gain that call reported (for every
\* marginalization result the call may have been given), after a removeBatch
\* it is the gain of the removal, and a rejected addBatch leaves it alone.
C19_LastInformationGain ==
  [][/\ (AddBatchAccepted' /\ last'.keepBatch) =>
          _mi' = RetMI(_NS', _svLogSum, TRUE)
     /\ (AddBatchAccepted' /\ ~last'.keepBatch) =>
          \A m \in Marginalize :
            ~KeepBatch(m, _svLogSum, _CS, last'.solutionValid, _options) =>
              _mi' = RetMI(m, _svLogSum, last'.solutionValid)
     /\ AddBatchRejected' => _mi' = _mi
     /\ RemoveBatchReturned' => _mi' = _svLogSum' - _svLogSum]_vars

\* the sum of the minimalDimensions of the design variables all[j], j in S
RECURSIVE SumMinimalDimensions(_, _)
SumMinimalDimensions(all, S) ==
  IF S = {} THEN 0
  ELSE LET j == CHOOSE j \in S : TRUE
       IN  all[j].minimalDimensions + SumMinimalDimensions(all, S \ {j})

\* the sum of the dimensions of the error terms all[j], j in S
RECURSIVE SumDimensions(_, _)
SumDimensions(all, S) ==
  IF S = {} THEN 0
  ELSE LET j == CHOOSE j \in S : TRUE
       IN  all[j].dimension + SumDimensions(all, S \ {j})

\* C20. The solver structure is rebuilt on rejection over the reduced pool:
\* the active design variables of the pool without the rejected batch, in
\* pool order, get the block indices 0, 1, 2, ..., the column base of each
\* is the sum of the minimalDimensions of the active variables before it,
\* the inactive variables get no index, and the row base of each error term
\* is the sum of the dimensions of the error terms before it.
C20_SolverStructureOnRejection ==
  AddBatchRejected =>
    LET all == DesignVariables(groupsOrdering)
        act == {i \in 1..Len(all) : all[i].active}
        terms == ErrorTerms(pool)
    IN  /\ Len(last.structure.dvs) = Cardinality(act)
        /\ \A i \in act :
             LET before == {j \in act : j < i}
                 d == last.structure.dvs[Cardinality(before) + 1]
             IN  /\ d.group = all[i].group /\ d.k = all[i].k
                 /\ d.blockIndex = Cardinality(before)
                 /\ d.columnBase = SumMinimalDimensions(all, before)
        /\ Len(last.structure.ets) = Len(terms)
        /\ \A i \in 1..Len(terms) :
             /\ last.structure.ets[i].batch = terms[i].batch
             /\ last.structure.ets[i].k = terms[i].k
             /\ last.structure.ets[i].rowBase = SumDimensions(terms, 1..(i - 1))

\* a batch rejected from a pool that keeps a batch, with an inactive design
\* variable between active ones
C20_Witness ==
  /\ AddBatchRejected
  /\ pool # <<>>
  /\ Len(last.structure.ets) = 2 * Len(pool)
  /\ Len(last.structure.dvs) = 3
  /\ Len(DesignVariables(groupsOrdering)) = 4
  /\ last.structure.dvs[3].columnBase = 3

\* C21. Bootstrap detection matches history: for a trial with a valid solve
\* the bootstrap branch of the decision (gain 0, accepted on validity alone)
\* is taken exactly when no snapshot has been committed so far; once one has
\* been committed, by an addBatch or a removeBatch and also when its sum is
\* exactly 0, every trial is judged by the gain/rank rule against it.
C21_BootstrapMatchesHistory ==
  \A srv \in SolutionReturnValues, m \in Marginalize :
    LET solutionValid == SolutionValid(srv, _options)
    IN  /\ solutionValid =>
             (FirstRound(_svLogSum, solutionValid) <=> over = {})
        /\ over # {} =>
             KeepBatch(m, _svLogSum, _CS, solutionValid, _options)
               = MIImprovementOrRankUp(ComputeMI(m.svLogSum, _svLogSum), m,
                                       _CS, solutionValid, _options)

\* C22. Rollback snapshot pairing: an addBatch restores the values only when
\* it rejects its batch, which it does only without force; the backup it
\* restores from is the one the same call wrote after the insertion of its
\* batch and before its solve (the values of before the call, for every
\* group of the pool with the batch), and every one of these values is back.
C22_RollbackSnapshotPairing ==
  [][AddBatchRejected' =>
       /\ ~last'.force
       /\ \E b \in BatchIds \ Range(pool) :
            LET a == ProblemAdd(pool, groupsOrdering, b)
            IN  /\ DOMAIN savedDV' = Range(a.ord)
                /\ \A g \in Range(a.ord) :
                     savedDV'[g] = dv[g] /\ dv'[g] = savedDV'[g]]_vars

\* a batch rejected after another was accepted: the backup holds the values
\* the accepted solve left, not the initial ones an earlier call had saved,
\* and the variables are back at them
C22_Witness ==
  /\ AddBatchRejected
  /\ ~last.force
  /\ pool # <<>>
  /\ DOMAIN savedDV = Range(groupsOrdering)
  /\ \A g \in Range(groupsOrdering) :
       savedDV[g] = Range(pool) /\ dv[g] = savedDV[g]

====
